---- MODULE Spec2Model ----
(***************************************************************************)
(* The two HTTP servers of the Descope Store MCP repository that keep      *)
(* their tokens in an in-memory Map.  The OAuth 2.1 authorization server:  *)
(* dynamic client registration, the authorization endpoint, the identity   *)
(* provider callback, the token endpoint and the Bearer gate in front of   *)
(* the /mcp routes, over the maps tokenStore and clientStore.  The social  *)
(* login server: the provider start and callback endpoints and the same    *)
(* Bearer gate, over its own tokenStore.  A process runs one of the two;   *)
(* server says which, and tokenStore is the Map of that process.           *)
(* A handler runs without interruption between two awaits; inflight holds  *)
(* the requests whose handler has not run yet or is suspended at an await. *)
(* created_at, which every record carries and no handler reads, is left    *)
(* out of the records.                                                     *)
(***************************************************************************)
EXTENDS Integers, Sequences, FiniteSets, Bags, TLC

VARIABLES
    server,        \* the server the process runs: "oauth" or "social"
    clientStore,   \* Map client_id -> client record
    tokenStore,    \* Map key -> record: 'auth_<code>' and 'mcp_at_<random>' keys
    now,           \* Date.now(), in milliseconds
    ticks,         \* how many times the clock advanced
    rand,          \* how many random strings each call site has drawn
    inflight,      \* bag of the handlers pending or suspended at an await
    last,          \* the response sent last
    grants         \* history of the authorization_code grants: the code, the access
                   \* token, and how many other requests naming the code were in flight

vars == <<server, clientStore, tokenStore, now, ticks, rand, inflight, last, grants>>

\* ---------------------------------------------------------------- bounds
MaxClients == 1
MaxCodes == 1
MaxTokens == 2
MaxStates == 1
MaxSessions == 1
MaxInflight == 1
MaxRacing == 2
MaxClockTicks == 3
MaxTicks == 2

\* ------------------------------------------------------ program constants
MCP_SERVER_URL == "http://localhost:3001"
CODE_TTL == 10 * 60 * 1000
TOKEN_TTL == 3600 * 1000
EXPIRES_IN == 3600
DEFAULT_REGISTER_SCOPE == "mcp:tools mcp:resources store:read"
DEFAULT_AUTHORIZE_SCOPE == "mcp:tools"
CLIENT_CREDENTIALS_SCOPE == "mcp:tools mcp:resources store:read"

\* A parameter the request does not carry (JavaScript undefined).
Undefined == "<undefined>"

\* !x of JavaScript, for the strings and undefined the handlers test.
Falsy(x) == x = Undefined \/ x = ""

\* obj.field of JavaScript: undefined when the record has no such field.
Field(r, f) == IF f \in DOMAIN r THEN r[f] ELSE Undefined

\* --------------------------------------------------------- random strings
\* crypto.randomBytes(length).toString('base64url'): the n-th string drawn at
\* a call site, never equal to one drawn before.
generateRandomString(site, n) == site \o ToString(n)

\* A generator that returns the same client_id again.
ClientIdRepeated(n) == "mcp_" \o generateRandomString("k", 1)

ClientIdOf(n) == "mcp_" \o generateRandomString("k", n)
ClientSecretOf(n) == "mcp_sk_" \o generateRandomString("s", n)
CodeOf(n) == generateRandomString("c", n)
AccessTokenOf(n) == "mcp_at_" \o generateRandomString("t", n)
RefreshTokenOf(n) == "mcp_rt_" \o generateRandomString("f", n)
AuthKey(code) == "auth_" \o code
StateOf(n) == generateRandomString("o", n)
StateKey(state) == "oauth_state_" \o state

AllCodes == {CodeOf(n) : n \in 1..MaxCodes}
AllAccessTokens == {AccessTokenOf(n) : n \in 1..MaxTokens}
AllClientIds == {ClientIdOf(n) : n \in 1..MaxClients}
AllStates == {StateOf(n) : n \in 1..MaxStates}

\* ------------------------------------------------------------ string help
StartsWith(s, p) == Len(s) >= Len(p) /\ SubSeq(s, 1, Len(p)) = p

Substring(s, from) == SubSeq(s, from + 1, Len(s))

RECURSIVE IndexOfAny(_, _, _)
\* The first position >= i of s holding one of the characters chars; 0 if none.
IndexOfAny(s, chars, i) ==
    IF i > Len(s) THEN 0
    ELSE IF SubSeq(s, i, i) \in chars THEN i
    ELSE IndexOfAny(s, chars, i + 1)

Includes(seq, x) == \E i \in 1..Len(seq) : seq[i] = x

\* ----------------------------------------------------------------- URLs
\* new URL(uri): throws without a scheme; protocol keeps the colon and
\* hostname is the authority without port.
ParseUrl(uri) ==
    LET c == IndexOfAny(uri, {":"}, 1) IN
    IF c <= 1 \/ IndexOfAny(SubSeq(uri, 1, c), {" ", "/"}, 1) # 0
    THEN [ok |-> FALSE, protocol |-> "", hostname |-> ""]
    ELSE LET rest == SubSeq(uri, c + 1, Len(uri))
             e    == IndexOfAny(uri, {"/", ":", "?", "#"}, c + 3)
             stop == IF e = 0 THEN Len(uri) ELSE e - 1
         IN [ok       |-> TRUE,
             protocol |-> SubSeq(uri, 1, c),
             hostname |-> IF StartsWith(rest, "//")
                          THEN SubSeq(uri, c + 3, stop) ELSE ""]

\* A filter that takes every http URL, whatever its host.
ValidRedirectUriAnyHost(uri) ==
    LET url == ParseUrl(uri) IN
    url.ok /\ url.protocol \in {"https:", "http:"}

\* The filter of /oauth/register: https, or http on localhost.
ValidRedirectUri(uri) ==
    LET url == ParseUrl(uri) IN
    /\ url.ok
    /\ \/ url.protocol = "https:"
       \/ (url.protocol = "http:" /\ url.hostname = "localhost")

\* ------------------------------------------------------------------ PKCE
\* The verifier of the model's challenge, the same with one character changed,
\* and the challenge itself sent as the verifier.
Verifiers == {"abc123", "abc124", "bKE9UspwyIPg8LsQHkJaiehiTeUdstI5JZOvaoQRgJA"}

\* crypto.createHash('sha256').update(v).digest('base64url') on the verifiers
\* of the model: the digests themselves, so distinct verifiers give distinct
\* challenges and no verifier is its own challenge.
Sha256Base64url(v) ==
    CASE v = "abc123" -> "bKE9UspwyIPg8LsQHkJaiehiTeUdstI5JZOvaoQRgJA"
      [] v = "abc124" -> "zXAR56ayfUTOIqcaTN_CxH1cZ-M1MZ7X9q5yzAPX1j8"
      [] OTHER        -> "sha256:" \o v

\* ------------------------------------------------------------- responses
\* A handler suspended at an await, or a request whose handler has not run.
Parked(h) == BagIn(h, inflight)
Park(h) == inflight (+) SetToBag({h})
Release(h) == inflight (-) SetToBag({h})
Resume(h, h2) == (inflight (-) SetToBag({h})) (+) SetToBag({h2})
Handlers == BagToSet(inflight)

\* How many handlers of the bag satisfy a test, copies counted.
CountIn(bag, S) == BagCardinality([x \in S |-> bag[x]])

Suspended == {h \in Handlers : h.pc # "token"}
Pending == {h \in Handlers : h.pc = "token"}
CanPark == CountIn(inflight, Suspended) < MaxInflight

\* What a response lets a claim see: the handler, the HTTP status, the error
\* and error_description of the JSON body, and the values the handler put in
\* the body or the redirect.
Response(op, status, error, description, info) ==
    [op |-> op, status |-> status, error |-> error,
     description |-> description, info |-> info]

NoInfo == [none |-> TRUE]

\* Map.set
MapSet(m, k, v) == [x \in DOMAIN m \cup {k} |-> IF x = k THEN v ELSE m[x]]

\* Map.delete
MapDelete(m, k) == [x \in DOMAIN m \ {k} |-> m[x]]

\* ---------------------------------------------------- POST /oauth/register
RegisteredUri == "https://app.example/cb"
OtherUri == "http://evil.example/cb"
DefaultUri == MCP_SERVER_URL \o "/oauth/callback"

RegisterUriLists ==
    { <<RegisteredUri, OtherUri>>,
      <<OtherUri, "not a url">> }

\* redirect_uris.filter(...)
RECURSIVE FilterValid(_)
FilterValid(uris) ==
    IF uris = <<>> THEN <<>>
    ELSE (IF ValidRedirectUri(Head(uris)) THEN <<Head(uris)>> ELSE <<>>)
         \o FilterValid(Tail(uris))

\* The handler with the scope of the body as an input and with max
\* registrations at most.
RegisterClient(uris_in, scope_in, max) ==
    LET redirect_uris == IF uris_in = <<Undefined>> THEN <<DefaultUri>> ELSE uris_in
        clientId      == ClientIdOf(rand.client + 1)
        clientSecret  == ClientSecretOf(rand.client + 1)
        validRedirectUris == FilterValid(redirect_uris)
    IN
    IF Len(validRedirectUris) = 0
    THEN /\ server = "oauth"
         /\ last' = Response("register", 400, "invalid_redirect_uri",
                        "Redirect URIs must be HTTPS or localhost HTTP", NoInfo)
         /\ UNCHANGED <<server, clientStore, tokenStore, now, ticks, rand, inflight, grants>>
    ELSE /\ server = "oauth"
         /\ rand.client < max
         /\ clientStore' = MapSet(clientStore, clientId,
                [client_id      |-> clientId,
                 client_secret  |-> clientSecret,
                 client_name    |-> "MCP Client",
                 redirect_uris  |-> validRedirectUris,
                 grant_types    |-> <<"authorization_code">>,
                 response_types |-> <<"code">>,
                 scope          |-> IF scope_in = Undefined
                                    THEN DEFAULT_REGISTER_SCOPE ELSE scope_in])
         /\ rand' = [rand EXCEPT !.client = @ + 1]
         /\ last' = Response("register", 200, "", "",
                [client_id |-> clientId, client_secret |-> clientSecret,
                 redirect_uris |-> validRedirectUris])
         /\ UNCHANGED <<server, tokenStore, now, ticks, inflight, grants>>

\* A registration that names no scope.
Register(uris_in) == RegisterClient(uris_in, Undefined, MaxClients)

\* ---------------------------------------------------- GET /oauth/authorize
GoodChallenge == "bKE9UspwyIPg8LsQHkJaiehiTeUdstI5JZOvaoQRgJA"

Query(client_id, redirect_uri, code_challenge, method) ==
    [client_id             |-> client_id,
     redirect_uri          |-> redirect_uri,
     scope                 |-> Undefined,
     code_challenge        |-> code_challenge,
     code_challenge_method |-> method]

\* The queries sent to /oauth/authorize: the complete ones, whose challenge
\* is the digest of the verifier "abc123", and the ones with a parameter
\* missing, an unknown client, an unregistered redirect_uri or another method.
AuthorizeQueries ==
    {Query(c, u, ch, Undefined) :
        c \in AllClientIds, u \in {RegisteredUri}, ch \in {GoodChallenge}}
    \cup {Query(c, u, GoodChallenge, Undefined) :
        c \in {Undefined, "mcp_unknown"}, u \in {RegisteredUri}}
    \cup {Query(c, u, GoodChallenge, Undefined) :
        c \in AllClientIds, u \in {Undefined, OtherUri}}
    \cup {Query(c, RegisteredUri, Undefined, Undefined) : c \in AllClientIds}
    \cup {Query(c, RegisteredUri, GoodChallenge, "plain") : c \in AllClientIds}

\* Checks that leave out the comparison of redirect_uri with the client's
\* registered ones.
AuthorizeErrorAnyRedirect(q) ==
    LET method == IF q.code_challenge_method = Undefined
                  THEN "S256" ELSE q.code_challenge_method
    IN
    IF Falsy(q.client_id) \/ Falsy(q.redirect_uri) \/ Falsy(q.code_challenge)
    THEN <<"invalid_request",
           "Missing required parameters: client_id, redirect_uri, code_challenge">>
    ELSE IF method # "S256"
    THEN <<"invalid_request", "code_challenge_method must be S256">>
    ELSE IF q.client_id \notin DOMAIN clientStore
    THEN <<"invalid_client", "Client not found">>
    ELSE <<"", "">>

\* The checks of the handler before it mints a code: the error and the
\* error_description of the first one that fails, <<"", "">> when all pass.
AuthorizeError(q) ==
    LET method == IF q.code_challenge_method = Undefined
                  THEN "S256" ELSE q.code_challenge_method
    IN
    IF Falsy(q.client_id) \/ Falsy(q.redirect_uri) \/ Falsy(q.code_challenge)
    THEN <<"invalid_request",
           "Missing required parameters: client_id, redirect_uri, code_challenge">>
    ELSE IF method # "S256"
    THEN <<"invalid_request", "code_challenge_method must be S256">>
    ELSE IF q.client_id \notin DOMAIN clientStore
    THEN <<"invalid_client", "Client not found">>
    ELSE IF ~Includes(clientStore[q.client_id].redirect_uris, q.redirect_uri)
    THEN <<"invalid_request", "Invalid redirect_uri">>
    ELSE <<"", "">>

\* The record stored under 'auth_<code>'.
AuthCodeRecord(q, t) ==
    [client_id             |-> q.client_id,
     redirect_uri          |-> q.redirect_uri,
     scope                 |-> IF q.scope = Undefined
                               THEN DEFAULT_AUTHORIZE_SCOPE ELSE q.scope,
     code_challenge        |-> q.code_challenge,
     code_challenge_method |-> IF q.code_challenge_method = Undefined
                               THEN "S256" ELSE q.code_challenge_method,
     expires_at            |-> t + CODE_TTL]

\* The handler up to its await of descopeClient.oAuth.start.
AuthorizeBegin(q) ==
    IF AuthorizeError(q)[1] # ""
    THEN /\ server = "oauth"
         /\ last' = Response("authorize", 400, AuthorizeError(q)[1],
                             AuthorizeError(q)[2], NoInfo)
         /\ UNCHANGED <<server, clientStore, tokenStore, now, ticks, rand, inflight, grants>>
    ELSE /\ server = "oauth"
         /\ rand.code < MaxCodes
         /\ CanPark
         /\ LET authCode == CodeOf(rand.code + 1)
            IN /\ tokenStore' = MapSet(tokenStore, AuthKey(authCode),
                                       AuthCodeRecord(q, now))
               /\ inflight' = Park([pc |-> "authorize_start", authCode |-> authCode])
         /\ rand' = [rand EXCEPT !.code = @ + 1]
         /\ UNCHANGED <<server, clientStore, now, ticks, last, grants>>

\* descopeClient.oAuth.start resolves (ok) or rejects.
AuthorizeEnd(h, ok) ==
    /\ Parked(h)
    /\ h.pc = "authorize_start"
    /\ last' = IF ok
               THEN Response("authorize", 302, "", "",
                        [location |-> "descope", code |-> h.authCode])
               ELSE Response("authorize", 500, "server_error",
                        "Failed to start OAuth flow with Descope",
                        [code |-> h.authCode])
    /\ inflight' = Release(h)
    /\ UNCHANGED <<server, clientStore, tokenStore, now, ticks, rand, grants>>

\* ----------------------------------------------------- GET /oauth/callback
SessionTokens == {"session_jwt_1"}

\* validatedToken.token.custom_claims as the identity provider returns them.
CustomClaims ==
    [mcp_auth_code : AllCodes \cup {Undefined},
     client_id     : {"mcp_unknown"},
     mcp_scope     : {Undefined}]

\* The record stored under the access token of a callback.
CallbackTokenRecord(authData, sessionToken, claims, t) ==
    [client_id     |-> authData.client_id,
     scope         |-> authData.scope,
     token_type    |-> "Bearer",
     descope_token |-> sessionToken,
     descope_user  |-> claims,
     expires_at    |-> t + TOKEN_TTL]

\* A callback that leaves the code in the store.
CallbackStoreKeep(store, authCode, mcpAccessToken, record) ==
    MapSet(store, mcpAccessToken, record)

\* The token store when the callback has minted its token.
CallbackStore(store, authCode, mcpAccessToken, record) ==
    MapDelete(MapSet(store, mcpAccessToken, record), AuthKey(authCode))

\* A redirect that goes where the claims say, when they name a redirect_uri.
CallbackRedirectFromClaims(authData, authCode, claims, mcpAccessToken) ==
    [location |-> IF Falsy(Field(claims, "redirect_uri"))
                  THEN authData.redirect_uri ELSE claims.redirect_uri,
     code     |-> authCode,
     state    |-> "authorized",
     minted   |-> mcpAccessToken]

\* finalRedirectUrl: the recorded redirect_uri with code and state set; minted
\* is the access token the handler stored before it redirected.
CallbackRedirect(authData, authCode, claims, mcpAccessToken) ==
    [location |-> authData.redirect_uri,
     code     |-> authCode,
     state    |-> "authorized",
     minted   |-> mcpAccessToken]

\* The handler up to its await of descopeClient.oAuth.exchangeToken.
CallbackBegin(code) ==
    IF Falsy(code)
    THEN /\ server = "oauth"
         /\ last' = Response("callback", 400, "invalid_request",
                             "Missing authorization code", NoInfo)
         /\ UNCHANGED <<server, clientStore, tokenStore, now, ticks, rand, inflight, grants>>
    ELSE /\ server = "oauth"
         /\ CanPark
         /\ inflight' = Park([pc |-> "callback_exchange"])
         /\ UNCHANGED <<server, clientStore, tokenStore, now, ticks, rand, last, grants>>

\* exchangeToken resolves with a session token or rejects; the handler then
\* awaits descopeClient.validateSession.
CallbackExchange(h, sessionToken) ==
    /\ Parked(h)
    /\ h.pc = "callback_exchange"
    /\ IF sessionToken = Undefined
       THEN /\ last' = Response("callback", 500, "server_error",
                          "Failed to process OAuth callback with Descope", NoInfo)
            /\ inflight' = Release(h)
       ELSE /\ inflight' = Resume(h, [pc |-> "callback_validate",
                                      sessionToken |-> sessionToken])
            /\ UNCHANGED last
    /\ UNCHANGED <<server, clientStore, tokenStore, now, ticks, rand, grants>>

\* validateSession rejects ("throws"), or resolves with valid false
\* ("invalid") or with valid true and the claims; the rest of the handler runs
\* without another await.
CallbackValidate(h, outcome, claims) ==
    /\ Parked(h)
    /\ h.pc = "callback_validate"
    /\ inflight' = Release(h)
    /\ LET authCode == claims.mcp_auth_code IN
       IF outcome = "throws"
       THEN /\ last' = Response("callback", 500, "server_error",
                          "Failed to process OAuth callback with Descope", NoInfo)
            /\ UNCHANGED <<tokenStore, rand>>
       ELSE IF outcome = "invalid"
       THEN /\ last' = Response("callback", 400, "invalid_grant",
                          "Invalid session token from Descope", NoInfo)
            /\ UNCHANGED <<tokenStore, rand>>
       ELSE IF Falsy(authCode)
       THEN /\ last' = Response("callback", 400, "invalid_grant",
                          "Missing MCP auth code in token claims", NoInfo)
            /\ UNCHANGED <<tokenStore, rand>>
       ELSE IF AuthKey(authCode) \notin DOMAIN tokenStore
       THEN /\ last' = Response("callback", 400, "invalid_grant",
                          "Invalid or expired authorization code",
                          [code |-> authCode])
            /\ UNCHANGED <<tokenStore, rand>>
       ELSE /\ rand.token < MaxTokens
            /\ LET authData == tokenStore[AuthKey(authCode)]
                   mcpAccessToken == AccessTokenOf(rand.token + 1)
               IN /\ tokenStore' = CallbackStore(tokenStore, authCode, mcpAccessToken,
                        CallbackTokenRecord(authData, h.sessionToken, claims, now))
                  /\ last' = Response("callback", 302, "", "",
                        CallbackRedirect(authData, authCode, claims, mcpAccessToken))
            /\ rand' = [rand EXCEPT !.token = @ + 1]
    /\ UNCHANGED <<server, clientStore, now, ticks, grants>>

\* ------------------------------------------------------- POST /oauth/token
TokenBody(grant_type, code, redirect_uri, client_id, client_secret, code_verifier) ==
    [grant_type    |-> grant_type,
     code          |-> code,
     redirect_uri  |-> redirect_uri,
     client_id     |-> client_id,
     client_secret |-> client_secret,
     code_verifier |-> code_verifier]

\* The bodies posted to /oauth/token: authorization_code with every code and
\* verifier, sent by a registered or an unknown client with the registered,
\* another or no redirect_uri; client_credentials with a right or wrong
\* secret; other grant types.
CodeBodies ==
    {TokenBody("authorization_code", c, u, k, Undefined, v) :
        c \in AllCodes, u \in {RegisteredUri}, k \in AllClientIds,
        v \in Verifiers \cup {Undefined}}
    \cup {TokenBody("authorization_code", c, u, k, Undefined, "abc123") :
        c \in AllCodes, u \in {Undefined, OtherUri}, k \in AllClientIds}
    \cup {TokenBody("authorization_code", c, RegisteredUri, "mcp_unknown",
                    Undefined, "abc123") : c \in AllCodes}

CredentialBodies ==
    {TokenBody("client_credentials", Undefined, Undefined, k, sec, Undefined) :
        k \in AllClientIds \cup {"mcp_unknown"},
        sec \in {ClientSecretOf(n) : n \in 1..MaxClients} \cup {Undefined, "guess"}}

OtherBodies ==
    {TokenBody(g, Undefined, Undefined, Undefined, Undefined, Undefined) :
        g \in {Undefined, "refresh_token", "password"}}
    \cup {TokenBody("password", c, RegisteredUri, k, ClientSecretOf(1), "abc123") :
            c \in AllCodes, k \in AllClientIds}

TokenBodies == CodeBodies \cup CredentialBodies \cup OtherBodies

\* A comparison of the verifier itself with the challenge, without the digest.
PkceMatchesPlain(code_verifier, code_challenge) ==
    code_verifier = code_challenge

\* expectedChallenge !== authData.code_challenge, negated: the verifier's
\* digest is the stored challenge.
PkceMatches(code_verifier, code_challenge) ==
    Sha256Base64url(code_verifier) = code_challenge

\* A token record whose lifetime is added in seconds to a clock in
\* milliseconds.
AccessTokenRecordSeconds(client_id, scope, t) ==
    [client_id  |-> client_id,
     scope      |-> scope,
     token_type |-> "Bearer",
     expires_at |-> t + EXPIRES_IN]

\* The record stored under an access token of the token endpoint.
AccessTokenRecord(client_id, scope, t) ==
    [client_id  |-> client_id,
     scope      |-> scope,
     token_type |-> "Bearer",
     expires_at |-> t + TOKEN_TTL]

\* A grant that stores its token and leaves the code in the store.
RedeemCodeKeep(store, code, accessToken, record) ==
    MapSet(store, accessToken, record)

\* A grant that deletes the key <code> instead of the key auth_<code>.
RedeemCodeBareKey(store, code, accessToken, record) ==
    MapDelete(MapSet(store, accessToken, record), code)

\* A grant that also stores the record under the refresh token it returns.
RedeemCodeAndRefresh(store, code, accessToken, record) ==
    MapDelete(MapSet(MapSet(store, accessToken, record),
                     RefreshTokenOf(rand.token + 1), record),
              AuthKey(code))

\* The token store when the grant has stored its token: tokenStore.set of the
\* access token, then tokenStore.delete of the code.
RedeemCode(store, code, accessToken, record) ==
    MapDelete(MapSet(store, accessToken, record), AuthKey(code))

\* An answer that names the request, not the grant type, as the fault.
UnsupportedGrantAsRequest(seen) ==
    Response("token", 400, "invalid_request",
             "Only authorization_code and client_credentials are supported", seen)

\* The answer of the else branch.
UnsupportedGrant(seen) ==
    Response("token", 400, "unsupported_grant_type",
             "Only authorization_code and client_credentials are supported", seen)

\* A test of the client's existence that accepts any secret.
ValidCredentialsAnySecret(client_id, client_secret) ==
    client_id \in DOMAIN clientStore

\* !client || client.client_secret !== client_secret, negated.
ValidCredentials(client_id, client_secret) ==
    /\ client_id \in DOMAIN clientStore
    /\ clientStore[client_id].client_secret = client_secret

\* The handler, which has no await: one step from the parsed body to the
\* response.
TokenHandler(body, rivals) ==
    LET accessToken == AccessTokenOf(rand.token + 1)
        refreshToken == RefreshTokenOf(rand.token + 1)
        seen == [grant_type |-> body.grant_type, code |-> body.code]
    IN
    IF body.grant_type = "authorization_code"
    THEN IF AuthKey(body.code) \notin DOMAIN tokenStore
         THEN /\ last' = Response("token", 400, "invalid_grant",
                            "Invalid or expired authorization code", seen)
              /\ UNCHANGED <<tokenStore, rand, grants>>
         ELSE IF Falsy(body.code_verifier)
         THEN /\ last' = Response("token", 400, "invalid_request",
                            "code_verifier required for PKCE", seen)
              /\ UNCHANGED <<tokenStore, rand, grants>>
         ELSE IF ~PkceMatches(body.code_verifier,
                              tokenStore[AuthKey(body.code)].code_challenge)
         THEN /\ last' = Response("token", 400, "invalid_grant",
                            "Invalid code_verifier", seen)
              /\ UNCHANGED <<tokenStore, rand, grants>>
         ELSE LET authData == tokenStore[AuthKey(body.code)] IN
              /\ rand.token < MaxTokens
              /\ tokenStore' = RedeemCode(tokenStore, body.code, accessToken,
                    AccessTokenRecord(authData.client_id, authData.scope, now))
              /\ rand' = [rand EXCEPT !.token = @ + 1]
              /\ grants' = grants \cup {[code |-> body.code, access_token |-> accessToken,
                                           rivals |-> rivals]}
              /\ last' = Response("token", 200, "", "",
                    [grant_type    |-> body.grant_type,
                     code          |-> body.code,
                     access_token  |-> accessToken,
                     token_type    |-> "Bearer",
                     expires_in    |-> EXPIRES_IN,
                     refresh_token |-> refreshToken,
                     scope         |-> authData.scope])
    ELSE IF body.grant_type = "client_credentials"
    THEN IF ~ValidCredentials(body.client_id, body.client_secret)
         THEN /\ last' = Response("token", 401, "invalid_client",
                            "Invalid client credentials", seen)
              /\ UNCHANGED <<tokenStore, rand, grants>>
         ELSE /\ rand.token < MaxTokens
              /\ tokenStore' = MapSet(tokenStore, accessToken,
                    AccessTokenRecord(body.client_id, CLIENT_CREDENTIALS_SCOPE, now))
              /\ rand' = [rand EXCEPT !.token = @ + 1]
              /\ last' = Response("token", 200, "", "",
                    [grant_type   |-> body.grant_type,
                     code         |-> body.code,
                     access_token |-> accessToken,
                     token_type   |-> "Bearer",
                     expires_in   |-> EXPIRES_IN,
                     scope        |-> CLIENT_CREDENTIALS_SCOPE])
              /\ UNCHANGED grants
    ELSE /\ last' = UnsupportedGrant(seen)
         /\ UNCHANGED <<tokenStore, rand, grants>>

\* A request whose handler runs as soon as its body is parsed.
Token(body) ==
    /\ server = "oauth"
    /\ UNCHANGED <<server, clientStore, now, ticks, inflight>>
    /\ TokenHandler(body, CountIn(inflight, {h \in Pending : h.body.code = body.code}))

\* A request is received; express.json() reads its body before the handler runs.
TokenArrive(body) ==
    /\ server = "oauth"
    /\ CountIn(inflight, Pending) < MaxRacing
    /\ inflight' = Park([pc |-> "token", body |-> body])
    /\ UNCHANGED <<server, clientStore, tokenStore, now, ticks, rand, last, grants>>

\* The handler of a received request runs.
TokenHandle(h) ==
    /\ Parked(h)
    /\ h.pc = "token"
    /\ TokenHandler(h.body,
            CountIn(Release(h), {x \in BagToSet(Release(h)) :
                                    x.pc = "token" /\ x.body.code = h.body.code}))
    /\ inflight' = Release(h)
    /\ UNCHANGED <<server, clientStore, now, ticks>>

\* ------------------------------------- social login: GET /oauth/<provider>
\* Some of oauthProviders.
Providers == {"google", "github"}

\* What descopeClient.oauth.start[provider] does: it resolves with ok and a
\* URL, with ok and a URL that new URL() refuses, with ok false, or rejects.
StartOutcomes == {"ok", "bad_url", "not_ok", "throws"}

\* error.message in the catch blocks of the two handlers.
ErrorMessage(what, outcome) ==
    IF outcome = "not_ok" THEN "OAuth " \o what \o " failed: E061301"
    ELSE IF outcome = "bad_url" THEN "Invalid URL"
    ELSE "connect ECONNREFUSED"

\* The record stored under 'oauth_state_<stateToken>'.
StateRecord(provider, t) == [provider |-> provider, expires_at |-> t + CODE_TTL]

\* The handler up to its await of descopeClient.oauth.start[provider].
SocialStartBegin(provider) ==
    /\ server = "social"
    /\ CanPark
    /\ inflight' = Park([pc |-> "social_start", provider |-> provider])
    /\ UNCHANGED <<server, clientStore, tokenStore, now, ticks, rand, last, grants>>

\* The rest of the handler: the state token is stored before the URL of the
\* identity provider is parsed.
SocialStartEnd(h, outcome) ==
    /\ Parked(h)
    /\ h.pc = "social_start"
    /\ inflight' = Release(h)
    /\ LET stateToken == StateOf(rand.state + 1) IN
       IF outcome \in {"ok", "bad_url"}
       THEN /\ rand.state < MaxStates
            /\ tokenStore' = MapSet(tokenStore, StateKey(stateToken),
                                    StateRecord(h.provider, now))
            /\ rand' = [rand EXCEPT !.state = @ + 1]
            /\ last' = IF outcome = "ok"
                       THEN Response("social_start", 302, "", "",
                                [location |-> "descope", state |-> stateToken])
                       ELSE Response("social_start", 500, "oauth_start_failed",
                                "Failed to start " \o h.provider \o " OAuth flow: "
                                    \o ErrorMessage("start", outcome),
                                [state |-> stateToken])
       ELSE /\ last' = Response("social_start", 500, "oauth_start_failed",
                            "Failed to start " \o h.provider \o " OAuth flow: "
                                \o ErrorMessage("start", outcome), NoInfo)
            /\ UNCHANGED <<tokenStore, rand>>
    /\ UNCHANGED <<server, clientStore, now, ticks, grants>>

\* ---------------------------- social login: GET /oauth/callback/<provider>
\* The state parameters sent to the callback: none, the issued ones, another.
CallbackStates == AllStates \cup {Undefined, "forged"}

\* The record stored under the access token of the social callback.
SocialTokenRecord(provider, sessionJwt, refreshJwt, t) ==
    [provider            |-> provider,
     token_type          |-> "Bearer",
     descope_session_jwt |-> sessionJwt,
     descope_refresh_jwt |-> refreshJwt,
     expires_at          |-> t + TOKEN_TTL]

\* The handler up to its await of descopeClient.oauth.exchange: the state, if
\* the request has one, is looked up and deleted.
SocialCallbackBegin(provider, code, state) ==
    IF Falsy(code)
    THEN /\ server = "social"
         /\ last' = Response("social_callback", 400, "invalid_request",
                             "Missing authorization code", NoInfo)
         /\ UNCHANGED <<server, clientStore, tokenStore, now, ticks, rand, inflight, grants>>
    ELSE IF /\ ~Falsy(state)
            /\ \/ StateKey(state) \notin DOMAIN tokenStore
               \/ tokenStore[StateKey(state)].provider # provider
    THEN /\ server = "social"
         /\ last' = Response("social_callback", 400, "invalid_state",
                             "Invalid state parameter", [state |-> state])
         /\ UNCHANGED <<server, clientStore, tokenStore, now, ticks, rand, inflight, grants>>
    ELSE /\ server = "social"
         /\ CanPark
         /\ tokenStore' = IF Falsy(state) THEN tokenStore
                          ELSE MapDelete(tokenStore, StateKey(state))
         /\ inflight' = Park([pc |-> "social_exchange", provider |-> provider,
                              state |-> state])
         /\ UNCHANGED <<server, clientStore, now, ticks, rand, last, grants>>

\* descopeClient.oauth.exchange resolves with ok and the session, with ok
\* false, or rejects; the rest of the handler runs without another await.
SocialCallbackEnd(h, outcome) ==
    /\ Parked(h)
    /\ h.pc = "social_exchange"
    /\ inflight' = Release(h)
    /\ LET mcpAccessToken == AccessTokenOf(rand.token + 1) IN
       IF outcome = "ok"
       THEN /\ rand.token < MaxSessions
            /\ tokenStore' = MapSet(tokenStore, mcpAccessToken,
                    SocialTokenRecord(h.provider, "session_jwt_1", "refresh_jwt_1", now))
            /\ rand' = [rand EXCEPT !.token = @ + 1]
            /\ last' = Response("social_callback", 200, "", "",
                            [minted |-> mcpAccessToken])
       ELSE /\ last' = Response("social_callback", 500, "oauth_exchange_failed",
                            "Failed to exchange " \o h.provider \o " OAuth code: "
                                \o ErrorMessage("exchange", outcome), NoInfo)
            /\ UNCHANGED <<tokenStore, rand>>
    /\ UNCHANGED <<server, clientStore, now, ticks, grants>>

\* ------------------------------------------------- authenticateBearer, /mcp
publicPaths ==
    <<"/health", "/mcp/info", "/.well-known/oauth-authorization-server",
      "/oauth/authorize", "/oauth/token", "/oauth/register">>

\* publicPaths of the social login server.
socialPublicPaths == <<"/health", "/mcp/info", "/login", "/oauth/", "/.well-known/">>

PublicPaths == IF server = "oauth" THEN publicPaths ELSE socialPublicPaths

\* The field of a token record that holds the identity provider's session.
SessionField == IF server = "oauth" THEN "descope_token" ELSE "descope_session_jwt"

\* A gate that lets every GET through.
IsPublicOrGet(method, path) ==
    method \in {"OPTIONS", "GET"}
        \/ \E i \in 1..Len(PublicPaths) : StartsWith(path, PublicPaths[i])

\* The first test of the middleware; req.path is the path below the mount
\* point /mcp.
IsPublic(method, path) ==
    method = "OPTIONS" \/ \E i \in 1..Len(PublicPaths) : StartsWith(path, PublicPaths[i])

\* The handler, if any, that next() reaches: app.get('/mcp/tools') and
\* app.post('/mcp/tools/:toolName').
RouteOf(method, path) ==
    IF method = "GET" /\ path = "/tools" THEN "tools"
    ELSE IF method = "POST" /\ StartsWith(path, "/tools/") /\ Len(path) > Len("/tools/")
              /\ IndexOfAny(path, {"/"}, Len("/tools/") + 1) = 0
    THEN "tool"
    ELSE "none"

\* The Authorization headers sent: none, another scheme, and Bearer with a
\* token nobody issued, the empty token, every access token and the key of
\* every authorization code.
Headers ==
    {Undefined, "Basic dXNlcjpwdw", "Bearer mcp_at_forged", "Bearer "}
    \cup {"Bearer " \o t : t \in AllAccessTokens}
    \cup {"Bearer " \o AuthKey(c) : c \in AllCodes}

MountedRequests ==
    { [method |-> "GET", path |-> "/tools"],
      [method |-> "POST", path |-> "/tools/search_products"],
      [method |-> "GET", path |-> "/health"] }

\* tokenData.expires_at < Date.now()
TokenExpired(tokenData, t) == tokenData.expires_at < t

\* A gate that refuses an expired token and leaves its record in the store.
EvictExpiredKeep(store, token) == store

\* The token store after the gate found the token expired.
EvictExpired(store, token) == MapDelete(store, token)

\* A gate that refuses an invalid session and leaves the record in the store.
EvictInvalidKeep(store, token) == store

\* The token store after the identity provider found the session invalid.
EvictInvalid(store, token) == MapDelete(store, token)

\* next(): the route handler runs and answers, 200 when its own work
\* succeeds, or no route matches and Express answers 404.
\* A gate whose tokens can be used once.
AdmitStoreConsume(store, token) == MapDelete(store, token)

\* The token store when the middleware calls next(): the admitting path
\* reads the record and writes nothing.
AdmitStore(store, token) == store

Downstream(r, token) ==
    IF RouteOf(r.method, r.path) = "none"
    THEN Response("mcp", 404, "", "", [token |-> token, handler |-> "none"])
    ELSE Response("mcp", 200, "", "",
            [token |-> token, handler |-> RouteOf(r.method, r.path)])

Unauthorized(description, token) ==
    Response("mcp", 401, "invalid_token", description,
             [token |-> token, handler |-> "none"])

\* The middleware, the same in both servers but for publicPaths and the name
\* of the session field, up to its await of descopeClient.validateSession, or
\* to its end when it does not reach the await.
authenticateBearer(r, authHeader) ==
    LET token == Substring(authHeader, 7) IN
    IF IsPublic(r.method, r.path)
    THEN /\ last' = Downstream(r, Undefined)
         /\ UNCHANGED <<tokenStore, inflight>>
    ELSE IF Falsy(authHeader) \/ ~StartsWith(authHeader, "Bearer ")
    THEN /\ last' = Unauthorized("Bearer token required in Authorization header",
                                 Undefined)
         /\ UNCHANGED <<tokenStore, inflight>>
    ELSE IF token \notin DOMAIN tokenStore
    THEN /\ last' = Unauthorized("Token not found or invalid", token)
         /\ UNCHANGED <<tokenStore, inflight>>
    ELSE IF TokenExpired(tokenStore[token], now)
    THEN /\ tokenStore' = EvictExpired(tokenStore, token)
         /\ last' = Unauthorized("Token has expired", token)
         /\ UNCHANGED inflight
    ELSE IF ~Falsy(Field(tokenStore[token], SessionField))
    THEN /\ CanPark
         /\ inflight' = Park([pc |-> "gate_validate", token |-> token, req |-> r])
         /\ UNCHANGED <<tokenStore, last>>
    ELSE /\ last' = Downstream(r, token)
         /\ tokenStore' = AdmitStore(tokenStore, token)
         /\ UNCHANGED inflight

Gate(r, authHeader) ==
    /\ UNCHANGED <<server, clientStore, now, ticks, rand, grants>>
    /\ authenticateBearer(r, authHeader)

\* validateSession rejects ("throws"), or resolves with valid false
\* ("invalid") or valid true; the middleware runs to its end.
GateValidate(h, outcome) ==
    /\ Parked(h)
    /\ h.pc = "gate_validate"
    /\ inflight' = Release(h)
    /\ IF outcome = "throws"
       THEN /\ last' = Unauthorized("Token validation failed", h.token)
            /\ UNCHANGED tokenStore
       ELSE IF outcome = "invalid"
       THEN /\ tokenStore' = EvictInvalid(tokenStore, h.token)
            /\ last' = Unauthorized("Descope session validation failed", h.token)
       ELSE /\ last' = Downstream(h.req, h.token)
            /\ tokenStore' = AdmitStore(tokenStore, h.token)
    /\ UNCHANGED <<server, clientStore, now, ticks, rand, grants>>

\* ------------------------------------------------------------------ clock
TickSteps == {TOKEN_TTL + 1}

\* Date.now() moves on by d milliseconds, at most max times.
Advance(d, max) ==
    /\ ticks < max
    /\ now' = now + d
    /\ ticks' = ticks + 1
    /\ UNCHANGED <<server, clientStore, tokenStore, rand, inflight, last, grants>>

Tick(d) == Advance(d, MaxTicks)

\* The steps around the hour an access token lives.
ClockSteps == {1000, 3599000}

ClockTick(d) == Advance(d, MaxClockTicks)

\* ------------------------------------------------------------------ system
EmptyMap == [k \in {} |-> NoInfo]

Init ==
    /\ server \in {"oauth", "social"}
    /\ clientStore = EmptyMap
    /\ tokenStore = EmptyMap
    /\ now = 0
    /\ ticks = 0
    /\ rand = [client |-> 0, code |-> 0, token |-> 0, state |-> 0]
    /\ inflight = EmptyBag
    /\ last = Response("none", 0, "", "", NoInfo)
    /\ grants = {}

Next ==
    \/ \E uris \in RegisterUriLists : Register(uris)
    \/ \E q \in AuthorizeQueries : AuthorizeBegin(q)
    \/ \E h \in Handlers, ok \in BOOLEAN : AuthorizeEnd(h, ok)
    \/ \E code \in {Undefined, "idp_code"} : CallbackBegin(code)
    \/ \E h \in Handlers, st \in SessionTokens \cup {Undefined} : CallbackExchange(h, st)
    \/ \E h \in Handlers, o \in {"throws", "invalid", "valid"}, c \in CustomClaims :
            CallbackValidate(h, o, c)
    \/ \E body \in TokenBodies : Token(body)
    \/ \E r \in MountedRequests, a \in Headers : Gate(r, a)
    \/ \E h \in Handlers, o \in {"throws", "invalid", "valid"} : GateValidate(h, o)
    \/ \E p \in Providers : SocialStartBegin(p)
    \/ \E h \in Handlers, o \in StartOutcomes : SocialStartEnd(h, o)
    \/ \E p \in Providers, code \in {Undefined, "idp_code"}, s \in CallbackStates :
            SocialCallbackBegin(p, code, s)
    \/ \E h \in Handlers, o \in {"ok", "not_ok", "throws"} : SocialCallbackEnd(h, o)
    \/ \E d \in TickSteps : Tick(d)

Spec == Init /\ [][Next]_vars

\* The process runs the OAuth 2.1 authorization server.
InitOAuth == Init /\ server = "oauth"

\* ----------------------------------------------- requests racing for a code
GoodQueries ==
    {Query(c, RegisteredUri, GoodChallenge, Undefined) : c \in AllClientIds}

RaceBodies ==
    {TokenBody("authorization_code", c, RegisteredUri, k, Undefined, v) :
        c \in AllCodes, k \in AllClientIds, v \in {"abc123", "abc124"}}

\* The token endpoint with its requests in flight: a request is received, and
\* its handler runs later, after other requests were received or handled.
NextRace ==
    \/ Register(<<RegisteredUri, OtherUri>>)
    \/ \E q \in GoodQueries : AuthorizeBegin(q)
    \/ \E h \in Handlers, ok \in BOOLEAN : AuthorizeEnd(h, ok)
    \/ \E body \in RaceBodies : TokenArrive(body)
    \/ \E h \in Handlers : TokenHandle(h)
    \/ CallbackBegin("idp_code")
    \/ \E h \in Handlers, st \in SessionTokens \cup {Undefined} : CallbackExchange(h, st)
    \/ \E h \in Handlers, o \in {"throws", "invalid", "valid"}, c \in CustomClaims :
            CallbackValidate(h, o, c)
    \/ \E d \in TickSteps : Tick(d)

SpecRace == InitOAuth /\ [][NextRace]_vars

\* ------------------------------------------- the clock around a token's hour
ClockBodies ==
    CredentialBodies
    \cup {TokenBody("authorization_code", c, RegisteredUri, k, Undefined, "abc123") :
            c \in AllCodes, k \in AllClientIds}

NextClock ==
    \/ Register(<<RegisteredUri, OtherUri>>)
    \/ \E q \in GoodQueries : AuthorizeBegin(q)
    \/ \E h \in Handlers, ok \in BOOLEAN : AuthorizeEnd(h, ok)
    \/ \E body \in ClockBodies : Token(body)
    \/ \E r \in MountedRequests, a \in Headers : Gate(r, a)
    \/ \E d \in ClockSteps : ClockTick(d)

SpecClock == InitOAuth /\ [][NextClock]_vars

\* ---------------------------------------- registration and authorization
\* The redirect URIs clients submit: https, http on localhost with and without
\* a port, http on other hosts (one whose name starts with localhost, one
\* numeric), another scheme, and a string that is no URL.
LocalUri == "http://localhost:3000/cb"
WideUris ==
    <<RegisteredUri, OtherUri, LocalUri, "http://localhost/cb",
      "https://localhost/cb", "http://localhost.evil.example/cb",
      "http://127.0.0.1/cb", "ftp://localhost/cb", "not a url">>

\* The lists posted to /oauth/register: every single URI, the empty list, and
\* lists that mix entries the filter keeps with entries it drops.
WideUriLists ==
    {<<WideUris[i]>> : i \in 1..Len(WideUris)}
    \cup { <<>>,
           <<OtherUri, LocalUri, RegisteredUri>>,
           <<LocalUri, "not a url", LocalUri>>,
           <<OtherUri, "ftp://localhost/cb", "http://127.0.0.1/cb">>,
           <<"http://localhost.evil.example/cb", "https://localhost/cb">> }

\* The queries sent to /oauth/authorize: every combination of a registered,
\* an unknown, an empty or no client_id, a redirect_uri that a client may or may
\* not have registered or none, a challenge, an empty one or none, and a
\* method or none.
WideQueries ==
    {Query(c, u, ch, m) :
        c \in AllClientIds \cup {Undefined, "", "mcp_unknown"},
        u \in {RegisteredUri, LocalUri, OtherUri, Undefined},
        ch \in {GoodChallenge, "", Undefined},
        m \in {Undefined, "S256", "plain"}}

NextRegister ==
    \/ \E uris \in WideUriLists : Register(uris)
    \/ \E q \in WideQueries : AuthorizeBegin(q)
    \/ \E h \in Handlers, ok \in BOOLEAN : AuthorizeEnd(h, ok)
    \/ \E d \in TickSteps : Tick(d)

SpecRegister == InitOAuth /\ [][NextRegister]_vars

\* ------------------------------------------- the identity provider's claims
\* custom_claims with a code that was issued, one that was not or none, with
\* the client_id of a registered or another client, a scope and a redirect_uri
\* of the provider's own.
WideClaims ==
    [mcp_auth_code : AllCodes \cup {Undefined, "c_forged"},
     client_id     : AllClientIds \cup {"mcp_unknown"},
     mcp_scope     : {Undefined, "admin"},
     redirect_uri  : {Undefined, OtherUri}]

\* Authorizations for either of the two redirect URIs of the client.
TwoUriQueries ==
    {Query(c, u, GoodChallenge, Undefined) :
        c \in AllClientIds, u \in {RegisteredUri, LocalUri}}

NextCallback ==
    \/ Register(<<RegisteredUri, OtherUri, LocalUri>>)
    \/ \E q \in TwoUriQueries : AuthorizeBegin(q)
    \/ \E h \in Handlers, ok \in BOOLEAN : AuthorizeEnd(h, ok)
    \/ \E code \in {Undefined, "idp_code"} : CallbackBegin(code)
    \/ \E h \in Handlers, st \in SessionTokens \cup {Undefined} : CallbackExchange(h, st)
    \/ \E h \in Handlers, o \in {"throws", "invalid", "valid"}, c \in WideClaims :
            CallbackValidate(h, o, c)
    \/ \E d \in TickSteps : Tick(d)

SpecCallback == InitOAuth /\ [][NextCallback]_vars

\* ---------------------------------------------------- the refresh token
AllRefreshTokens == {RefreshTokenOf(n) : n \in 1..MaxTokens}

\* Authorization headers that present a refresh token or an access token.
RefreshHeaders ==
    {"Bearer " \o t : t \in AllRefreshTokens \cup AllAccessTokens}

\* Token requests: the authorization_code grant with the right verifier, and
\* requests with grant_type refresh_token.
RefreshBodies ==
    ClockBodies
    \cup {TokenBody("refresh_token", Undefined, Undefined, k, sec, Undefined) :
            k \in AllClientIds, sec \in {Undefined, ClientSecretOf(1)}}

NextRefresh ==
    \/ Register(<<RegisteredUri, OtherUri>>)
    \/ \E q \in GoodQueries : AuthorizeBegin(q)
    \/ \E h \in Handlers, ok \in BOOLEAN : AuthorizeEnd(h, ok)
    \/ \E body \in RefreshBodies : Token(body)
    \/ \E r \in MountedRequests, a \in RefreshHeaders : Gate(r, a)
    \/ \E d \in TickSteps : Tick(d)

SpecRefresh == InitOAuth /\ [][NextRefresh]_vars

\* ------------------------------------------------- other server variants
\* Three more deployments answer MCP requests: the serverless function
\* ("vercel"), the demo server with authenticateWithDescope ("demo") and the
\* Hono application ("hono"). Each is modelled with its environment
\* variables set, so that its Descope client exists.
Variants == {"vercel", "demo", "hono"}

demoTokens == {"descope-demo-token-2024", "mcp-connector-token", "descope-store-access"}

\* A string with the shape of a JWT that no one issued.
JwtShaped == "eyJhbGciOiJub25lIn0.e30.x"

\* The tokens presented: a session the identity provider issued, a demo
\* token, the JWT-shaped string, a short string with a dot, a forged access
\* token and the empty token.
VariantTokens ==
    SessionTokens \cup {"descope-demo-token-2024", JwtShaped, "a.b", "mcp_at_forged", ""}

VariantHeaders ==
    {Undefined, "Basic dXNlcjpwdw"} \cup {"Bearer " \o t : t \in VariantTokens}

\* What the handler of a variant answered: status, the error of the body and
\* which handler, if any, wrote the body.
VariantResponse(status, error, token, handler) ==
    Response(server, status, error, "", [token |-> token, handler |-> handler])

VercelRequests ==
    [method : {"GET", "POST", "OPTIONS"}, path : {"/", "/health", "/mcp", "/favicon.ico"}]

\* The serverless function, for the paths that call no other service.
VercelHandler(r, authHeader) ==
    /\ server = "vercel"
    /\ last' =
         IF r.method = "OPTIONS" THEN VariantResponse(200, "", Undefined, "none")
         ELSE IF r.path = "/" /\ r.method = "GET"
         THEN VariantResponse(200, "", Undefined, "root")
         ELSE IF r.path = "/health" /\ r.method = "GET"
         THEN VariantResponse(200, "", Undefined, "health")
         ELSE IF r.path = "/mcp" /\ r.method = "GET"
         THEN IF Falsy(authHeader) \/ ~StartsWith(authHeader, "Bearer ")
              THEN VariantResponse(401, "Missing or invalid Authorization header",
                                   Undefined, "none")
              ELSE VariantResponse(200, "", Substring(authHeader, 7), "initialize")
         ELSE IF r.path = "/favicon.ico"
         THEN VariantResponse(204, "", Undefined, "none")
         ELSE VariantResponse(404, "Not found", Undefined, "none")
    /\ UNCHANGED <<server, clientStore, tokenStore, now, ticks, rand, inflight, grants>>

\* validateDescopeToken: a demo token, or a string with a dot that is longer
\* than 20 characters.
validateDescopeToken(token) ==
    \/ token \in demoTokens
    \/ IndexOfAny(token, {"."}, 1) # 0 /\ Len(token) > 20

DemoRequests ==
    { [method |-> "GET", path |-> "/mcp/tools"],
      [method |-> "POST", path |-> "/mcp/tools/call"],
      [method |-> "GET", path |-> "/mcp/info"],
      [method |-> "GET", path |-> "/health"] }

DemoRouteOf(r) ==
    IF r.path = "/mcp/tools" THEN "tools"
    ELSE IF r.path = "/mcp/tools/call" THEN "tools_call"
    ELSE IF r.path = "/mcp/info" THEN "info"
    ELSE "health"

\* authenticateWithDescope, mounted on the two tool routes, up to next() or
\* to its own response.
authenticateWithDescope(r, authHeader, descopeToken) ==
    LET token == IF ~Falsy(authHeader) /\ StartsWith(authHeader, "Bearer ")
                 THEN Substring(authHeader, 7)
                 ELSE descopeToken
    IN  IF r.path \in {"/health", "/mcp/info"}
        THEN VariantResponse(200, "", Undefined, DemoRouteOf(r))
        ELSE IF Falsy(token)
        THEN VariantResponse(401, "Authentication required", Undefined, "none")
        ELSE IF validateDescopeToken(token)
        THEN VariantResponse(200, "", token, DemoRouteOf(r))
        ELSE VariantResponse(401, "Invalid token", token, "none")

DemoRequest(r, authHeader, descopeToken) ==
    /\ server = "demo"
    /\ last' = authenticateWithDescope(r, authHeader, descopeToken)
    /\ UNCHANGED <<server, clientStore, tokenStore, now, ticks, rand, inflight, grants>>

\* app.get('/mcp') of the Hono application up to its await of
\* descopeClient.validateSession.
HonoMcpBegin(authHeader) ==
    /\ server = "hono"
    /\ IF Falsy(authHeader) \/ ~StartsWith(authHeader, "Bearer ")
       THEN /\ last' = VariantResponse(401, "Missing or invalid Authorization header",
                                       Undefined, "none")
            /\ UNCHANGED inflight
       ELSE /\ CanPark
            /\ inflight' = Park([pc |-> "hono_validate",
                                 token |-> Substring(authHeader, 7)])
            /\ UNCHANGED last
    /\ UNCHANGED <<server, clientStore, tokenStore, now, ticks, rand, grants>>

\* What validateSession can answer for a token: valid only for a session the
\* identity provider issued.
ValidateOutcomes(token) ==
    {"throws", "invalid"} \cup (IF token \in SessionTokens THEN {"valid"} ELSE {})

\* validateSession has answered; the handler runs to its end.
HonoMcpEnd(h, outcome) ==
    /\ server = "hono"
    /\ Parked(h)
    /\ h.pc = "hono_validate"
    /\ outcome \in ValidateOutcomes(h.token)
    /\ inflight' = Release(h)
    /\ last' = IF outcome = "throws"
               THEN VariantResponse(401, "Token validation failed", h.token, "none")
               ELSE IF outcome = "invalid"
               THEN VariantResponse(401, "Invalid token", h.token, "none")
               ELSE VariantResponse(200, "", h.token, "initialize")
    /\ UNCHANGED <<server, clientStore, tokenStore, now, ticks, rand, grants>>

InitVariants ==
    /\ server \in Variants
    /\ clientStore = EmptyMap
    /\ tokenStore = EmptyMap
    /\ now = 0
    /\ ticks = 0
    /\ rand = [client |-> 0, code |-> 0, token |-> 0, state |-> 0]
    /\ inflight = EmptyBag
    /\ last = Response("none", 0, "", "", NoInfo)
    /\ grants = {}

NextVariants ==
    \/ \E r \in VercelRequests, a \in VariantHeaders : VercelHandler(r, a)
    \/ \E r \in DemoRequests, a \in VariantHeaders, x \in {Undefined, JwtShaped, "a.b"} :
            DemoRequest(r, a, x)
    \/ \E a \in VariantHeaders : HonoMcpBegin(a)
    \/ \E h \in Handlers, o \in {"throws", "invalid", "valid"} : HonoMcpEnd(h, o)

SpecVariants == InitVariants /\ [][NextVariants]_vars

\* ------------------------------------------------------------ two clients
MaxRegistered == 2

TwoClientIds == {ClientIdOf(n) : n \in 1..MaxRegistered}

RegisterScopes == {Undefined, "store:read"}

AuthorizeScopes == {Undefined, "store:read", "admin:all"}

\* Complete authorize requests of either client, with a scope or none.
ScopedQueries ==
    {[Query(c, RegisteredUri, GoodChallenge, Undefined) EXCEPT !.scope = sc] :
        c \in TwoClientIds, sc \in AuthorizeScopes}

\* Token requests with the right verifier, sent under either client_id or an
\* unknown one, and client_credentials requests of either client.
TwoClientBodies ==
    {TokenBody("authorization_code", c, RegisteredUri, k, Undefined, "abc123") :
        c \in AllCodes, k \in TwoClientIds \cup {"mcp_unknown"}}
    \cup {TokenBody("client_credentials", Undefined, Undefined, k, ClientSecretOf(n),
                    Undefined) : k \in TwoClientIds, n \in 1..MaxRegistered}

\* Requests to the tool routes with no token, a forged one or an issued one.
ClientHeaders ==
    {Undefined, "Bearer mcp_at_forged"} \cup {"Bearer " \o t : t \in AllAccessTokens}

ToolRequests ==
    { [method |-> "GET", path |-> "/tools"],
      [method |-> "POST", path |-> "/tools/search_products"] }

NextClients ==
    \/ \E sc \in RegisterScopes :
            RegisterClient(<<RegisteredUri, OtherUri>>, sc, MaxRegistered)
    \/ \E q \in ScopedQueries : AuthorizeBegin(q)
    \/ \E h \in Handlers, ok \in BOOLEAN : AuthorizeEnd(h, ok)
    \/ CallbackBegin("idp_code")
    \/ \E h \in Handlers, st \in SessionTokens \cup {Undefined} : CallbackExchange(h, st)
    \/ \E h \in Handlers, o \in {"throws", "invalid", "valid"}, c \in CustomClaims :
            CallbackValidate(h, o, c)
    \/ \E body \in TwoClientBodies : Token(body)
    \/ \E r \in ToolRequests, a \in ClientHeaders : Gate(r, a)
    \/ \E h \in Handlers, o \in {"throws", "invalid", "valid"} : GateValidate(h, o)

SpecClients == InitOAuth /\ [][NextClients]_vars

\* ------------------------------------------------- create_order ("orders")
\* The tool server with the catalog tools answers POST /mcp/tools/call; the
\* create_order tool calls the catalog API once per line item and then posts
\* the order. A handler in flight carries the calls it has made so far, each
\* with its answer once the catalog API has given it.
MaxItems == 3

ProductIds == {"p1", "p2"}

\* args.items: up to MaxItems line items; an item is its product_id.
ItemLists == UNION {[1..n -> ProductIds] : n \in 0..MaxItems}

Call(method, target) == [method |-> method, target |-> target, answer |-> "pending"]

\* The last call of the log has been answered.
Answered(calls, answer) ==
    [k \in 1..Len(calls) |->
        IF k = Len(calls) THEN [calls[k] EXCEPT !.answer = answer] ELSE calls[k]]

\* A loop that goes on to the next item whatever the catalog API answered.
AfterCheckIgnoringFailure(items, i, ok) ==
    IF i < Len(items) THEN "check" ELSE "post"

\* What createOrder does when the GET for items[i] has been answered: it
\* throws from the catch, goes round the loop, or leaves the loop and posts.
AfterCheck(items, i, ok) ==
    IF ~ok THEN "throw"
    ELSE IF i < Len(items) THEN "check"
    ELSE "post"

ToolError(name, message) == "Error executing " \o name \o ": " \o message

\* POST /mcp/tools/call with name create_order, after the middleware has
\* called next(): up to the first await of createOrder.
CreateOrderBegin(items) ==
    /\ server = "orders"
    /\ CanPark
    /\ inflight' =
         IF Len(items) = 0
         THEN Park([pc |-> "order_post", items |-> items, i |-> 0,
                    calls |-> <<Call("POST", "/api/orders")>>])
         ELSE Park([pc |-> "order_check", items |-> items, i |-> 1,
                    calls |-> <<Call("GET", items[1])>>])
    /\ UNCHANGED <<server, clientStore, tokenStore, now, ticks, rand, last, grants>>

\* axios.get for items[h.i] has resolved (ok) or rejected.
CreateOrderCheck(h, ok) ==
    /\ server = "orders"
    /\ Parked(h)
    /\ h.pc = "order_check"
    /\ LET calls == Answered(h.calls, IF ok THEN "ok" ELSE "failed")
           step == AfterCheck(h.items, h.i, ok)
       IN  IF step = "throw"
           THEN /\ inflight' = Release(h)
                /\ last' = Response("create_order", 500,
                              ToolError("create_order",
                                  "Product " \o h.items[h.i] \o " not found"),
                              "", [items |-> h.items, calls |-> calls])
           ELSE IF step = "check"
           THEN /\ inflight' = Resume(h, [h EXCEPT !.i = h.i + 1,
                         !.calls = Append(calls, Call("GET", h.items[h.i + 1]))])
                /\ UNCHANGED last
           ELSE /\ inflight' = Resume(h, [h EXCEPT !.pc = "order_post",
                         !.calls = Append(calls, Call("POST", "/api/orders"))])
                /\ UNCHANGED last
    /\ UNCHANGED <<server, clientStore, tokenStore, now, ticks, rand, grants>>

\* axios.post has resolved (ok) or rejected; the route handler answers.
CreateOrderPost(h, ok) ==
    /\ server = "orders"
    /\ Parked(h)
    /\ h.pc = "order_post"
    /\ inflight' = Release(h)
    /\ last' = IF ok
               THEN Response("create_order", 200, "", "",
                        [items |-> h.items, calls |-> Answered(h.calls, "ok")])
               ELSE Response("create_order", 500,
                        ToolError("create_order", "Request failed with status code 500"),
                        "", [items |-> h.items, calls |-> Answered(h.calls, "failed")])
    /\ UNCHANGED <<server, clientStore, tokenStore, now, ticks, rand, grants>>

InitOrders ==
    /\ server = "orders"
    /\ clientStore = EmptyMap
    /\ tokenStore = EmptyMap
    /\ now = 0
    /\ ticks = 0
    /\ rand = [client |-> 0, code |-> 0, token |-> 0, state |-> 0]
    /\ inflight = EmptyBag
    /\ last = Response("none", 0, "", "", NoInfo)
    /\ grants = {}

NextOrders ==
    \/ \E items \in ItemLists : CreateOrderBegin(items)
    \/ \E h \in Handlers, ok \in BOOLEAN : CreateOrderCheck(h, ok)
    \/ \E h \in Handlers, ok \in BOOLEAN : CreateOrderPost(h, ok)

SpecOrders == InitOrders /\ [][NextOrders]_vars

\* ------------------------------------------------------------------ claims
GrantsOf(g, code) == {x \in g : x.code = code}

\* A token request reads the record of its code: the code is in the store.
FindsCode(body) ==
    body.grant_type = "authorization_code" /\ AuthKey(body.code) \in DOMAIN tokenStore

\* C1: over any sequence of token requests with grant_type=authorization_code,
\* at most one request naming a code returns an access token, and every token
\* request naming the code after the successful one returns 400 invalid_grant.
C1_CodeRedeemedOnce ==
    [][\A body \in CodeBodies : Token(body) =>
          /\ Cardinality(GrantsOf(grants', body.code)) <= 1
          /\ (GrantsOf(grants, body.code) # {} =>
                /\ last'.status = 400
                /\ last'.error = "invalid_grant"
                /\ tokenStore' = tokenStore)]_vars

\* A token request naming a code that was redeemed before was refused.
C1_Witness ==
    /\ last.op = "token"
    /\ last.status = 400
    /\ last.error = "invalid_grant"
    /\ GrantsOf(grants, last.info.code) # {}

\* C2: after a successful /oauth/callback the code that the callback appends
\* to the client's redirect is still in the store (so that the client's first
\* token request with it can be answered with an access token).
C2_CodeSurvivesCallback ==
    (last.op = "callback" /\ last.status = 302)
        => AuthKey(last.info.code) \in DOMAIN tokenStore

\* C3: a token request whose code record has expires_at earlier than the
\* current time returns invalid_grant and stores no access token, even with the
\* matching code_verifier.
C3_ExpiredCodeRefused ==
    [][\A body \in CodeBodies :
          (Token(body) /\ FindsCode(body)
             /\ tokenStore[AuthKey(body.code)].expires_at < now) =>
                /\ last'.status = 400
                /\ last'.error = "invalid_grant"
                /\ DOMAIN tokenStore' \subseteq DOMAIN tokenStore]_vars

\* C4: the PKCE check of the token endpoint succeeds exactly when
\* base64url(SHA-256(code_verifier)) is the code_challenge stored with the
\* code: the matching verifier gets the access token, every other verifier gets
\* 400 invalid_grant and changes nothing, and an authorization_code grant
\* returns an access token only when its verifier's digest is the challenge.
C4_PkceDecides ==
    [][\A body \in CodeBodies : Token(body) =>
          /\ (FindsCode(body) /\ ~Falsy(body.code_verifier)) =>
                LET challenge == tokenStore[AuthKey(body.code)].code_challenge IN
                IF Sha256Base64url(body.code_verifier) = challenge
                THEN /\ last'.status = 200
                     /\ last'.info.access_token \in DOMAIN tokenStore' \ DOMAIN tokenStore
                ELSE /\ last'.status = 400
                     /\ last'.error = "invalid_grant"
                     /\ tokenStore' = tokenStore
          /\ last'.status = 200 =>
                /\ FindsCode(body)
                /\ ~Falsy(body.code_verifier)
                /\ Sha256Base64url(body.code_verifier)
                     = tokenStore[AuthKey(body.code)].code_challenge]_vars

\* A verifier whose digest is not the stored challenge was refused, and the
\* code it named is still in the store.
C4_Witness ==
    /\ last.op = "token"
    /\ last.status = 400
    /\ last.description = "Invalid code_verifier"
    /\ AuthKey(last.info.code) \in DOMAIN tokenStore

\* C5: when two token requests for the same code are in flight together, at
\* most one of them is answered with an access token, whatever the order in
\* which the handlers run: no code has two grants, and a handler that runs
\* after the grant of its code is answered 400 invalid_grant.
C5_OneWinner ==
    [][\A h \in Handlers : TokenHandle(h) =>
          /\ Cardinality(GrantsOf(grants', h.body.code)) <= 1
          /\ (GrantsOf(grants, h.body.code) # {} =>
                /\ last'.status = 400
                /\ last'.error = "invalid_grant")]_vars

\* A code was granted while another request naming it was in flight, and that
\* request was then refused.
C5_Witness ==
    /\ last.op = "token"
    /\ last.status = 400
    /\ last.error = "invalid_grant"
    /\ \E g \in GrantsOf(grants, last.info.code) : g.rivals >= 1
    /\ Pending = {}

\* C6: after any token request that finds its code in the store, the code is
\* no longer in the store, also when the request fails because code_verifier is
\* missing or does not match.
C6_ReadDeletesCode ==
    [][\A body \in CodeBodies :
          (Token(body) /\ FindsCode(body))
             => AuthKey(body.code) \notin DOMAIN tokenStore']_vars

\* C7: an authorization_code grant succeeds only if the redirect_uri of the
\* token request is one of the registered redirect_uris of the client the code
\* was issued to.
C7_RedirectUriChecked ==
    [][\A body \in CodeBodies :
          (Token(body) /\ last'.status = 200) =>
             Includes(clientStore[tokenStore[AuthKey(body.code)].client_id].redirect_uris,
                      body.redirect_uri)]_vars

\* What every step of the middleware does: it answers, or it suspends at its
\* await.
MiddlewareStep == last'.op = "mcp" \/ inflight' # inflight

\* The request carries no usable bearer token: no Authorization header, another
\* scheme, or a token that is no key of the token store.
NoValidBearer(authHeader) ==
    \/ Falsy(authHeader)
    \/ ~StartsWith(authHeader, "Bearer ")
    \/ Substring(authHeader, 7) \notin DOMAIN tokenStore

\* C8: for a request to a route below /mcp without a usable bearer token, no
\* route handler is invoked, and a request to a protected route (one of the
\* routes that has a handler) is answered 401 invalid_token.
C8_GateRejects ==
    [][MiddlewareStep => \A r \in MountedRequests, a \in Headers :
          (NoValidBearer(a) /\ Gate(r, a)) =>
             /\ last'.info.handler = "none"
             /\ inflight' = inflight
             /\ tokenStore' = tokenStore
             /\ RouteOf(r.method, r.path) # "none" =>
                   (last'.status = 401 /\ last'.error = "invalid_token")]_vars

\* A well-formed bearer token that nobody issued was refused.
C8_Witness ==
    /\ last.op = "mcp"
    /\ last.status = 401
    /\ last.error = "invalid_token"
    /\ last.info.token = "mcp_at_forged"

IssuedTokens == {AccessTokenOf(n) : n \in 1..rand.token}

\* C9: when the gate looks up an access token whose expires_at is earlier than
\* the current time, the request is rejected with 401 invalid_token and the
\* record is deleted; a deleted token never comes back, and a request with a
\* token that is not in the store is rejected as not found.
C9_ExpiredEvicted ==
    [][/\ MiddlewareStep => \A r \in MountedRequests, a \in Headers :
             (~NoValidBearer(a) /\ ~IsPublic(r.method, r.path) /\ Gate(r, a)) =>
                LET token == Substring(a, 7) IN
                tokenStore[token].expires_at < now =>
                   /\ last'.status = 401
                   /\ last'.error = "invalid_token"
                   /\ token \notin DOMAIN tokenStore'
       /\ \A t \in IssuedTokens :
             t \notin DOMAIN tokenStore => t \notin DOMAIN tokenStore'
       /\ MiddlewareStep => \A r \in MountedRequests, t \in IssuedTokens :
             (t \notin DOMAIN tokenStore /\ ~IsPublic(r.method, r.path)
                /\ Gate(r, "Bearer " \o t)) =>
                   /\ last'.status = 401
                   /\ last'.description = "Token not found or invalid"]_vars

\* The gate found an issued access token expired, refused the request and
\* deleted the record.
C9_Witness ==
    /\ last.op = "mcp"
    /\ last.status = 401
    /\ last.description = "Token has expired"
    /\ last.info.token \in IssuedTokens
    /\ last.info.token \notin DOMAIN tokenStore

\* C10: an access token stored at clock time T has expires_at = T + 3600*1000;
\* the gate admits it at every time up to T + 3599 s and rejects it at every
\* time from T + 3601 s on.
C10_HourBoundary ==
    [][/\ \A body \in ClockBodies :
             (Token(body) /\ last'.status = 200) =>
                tokenStore'[last'.info.access_token].expires_at = now + 3600 * 1000
       /\ MiddlewareStep => \A r \in MountedRequests, t \in IssuedTokens :
             (/\ t \in DOMAIN tokenStore
              /\ Falsy(Field(tokenStore[t], "descope_token"))
              /\ RouteOf(r.method, r.path) # "none"
              /\ Gate(r, "Bearer " \o t)) =>
                LET T == tokenStore[t].expires_at - 3600 * 1000 IN
                /\ now <= T + 3599 * 1000 =>
                      (last'.status # 401 /\ last'.info.handler # "none"
                         /\ t \in DOMAIN tokenStore')
                /\ now >= T + 3601 * 1000 =>
                      (last'.status = 401 /\ last'.error = "invalid_token"
                         /\ last'.info.handler = "none")]_vars

\* A token stored after the clock had moved was admitted 3599 s later.
C10_Witness ==
    /\ last.op = "mcp"
    /\ last.status = 200
    /\ last.info.token \in DOMAIN tokenStore
    /\ tokenStore[last.info.token].expires_at > 3600 * 1000
    /\ now = tokenStore[last.info.token].expires_at - 3600 * 1000 + 3599 * 1000

\* The record of the token carries a session of the identity provider.
HasSession(t) == t \in DOMAIN tokenStore /\ ~Falsy(Field(tokenStore[t], SessionField))

\* C11: for a token whose record carries an identity provider session, a
\* request that finds the record unexpired is not answered before
\* validateSession was awaited; the route handler runs only when that call
\* reports valid; when it reports invalid the request gets 401 and the record
\* is deleted, when it rejects the request gets 401; and a request with a token
\* that is not in the store gets 401.
C11_SessionRevalidated ==
    [][/\ MiddlewareStep => \A r \in MountedRequests, t \in IssuedTokens :
             (/\ HasSession(t)
              /\ ~IsPublic(r.method, r.path)
              /\ ~TokenExpired(tokenStore[t], now)
              /\ Gate(r, "Bearer " \o t)) =>
                /\ last' = last
                /\ BagIn([pc |-> "gate_validate", token |-> t, req |-> r], inflight')
       /\ \A h \in Handlers, o \in {"throws", "invalid", "valid"} :
             GateValidate(h, o) =>
                /\ last'.info.handler # "none" => o = "valid"
                /\ o # "valid" => (last'.status = 401 /\ last'.error = "invalid_token")
                /\ o = "invalid" => h.token \notin DOMAIN tokenStore'
       /\ MiddlewareStep => \A r \in MountedRequests, t \in IssuedTokens :
             (/\ t \notin DOMAIN tokenStore
              /\ ~IsPublic(r.method, r.path)
              /\ Gate(r, "Bearer " \o t)) =>
                (last'.status = 401 /\ last'.info.handler = "none")]_vars

\* The identity provider reported the session of an issued token invalid: the
\* request was refused and the record is gone.
C11_Witness ==
    /\ last.op = "mcp"
    /\ last.status = 401
    /\ last.description = "Descope session validation failed"
    /\ last.info.token \in IssuedTokens
    /\ last.info.token \notin DOMAIN tokenStore

\* C12: a client_credentials request is answered 200 with a new access token
\* (token_type Bearer, expires_in 3600, no refresh_token) whose record passes
\* the tests of the gate, exactly when client_id is a registered client and
\* client_secret is its stored secret; otherwise it is answered 401
\* invalid_client and the token store is unchanged.  The gate calls the route
\* handler for every stored, unexpired token without a session.
C12_ClientCredentials ==
    [][/\ \A body \in CredentialBodies : Token(body) =>
             IF /\ body.client_id \in DOMAIN clientStore
                /\ body.client_secret = clientStore[body.client_id].client_secret
             THEN LET t == last'.info.access_token IN
                  /\ last'.status = 200
                  /\ last'.info.token_type = "Bearer"
                  /\ last'.info.expires_in = 3600
                  /\ "refresh_token" \notin DOMAIN last'.info
                  /\ t \notin DOMAIN tokenStore
                  /\ DOMAIN tokenStore' = DOMAIN tokenStore \cup {t}
                  /\ ~TokenExpired(tokenStore'[t], now')
                  /\ Falsy(Field(tokenStore'[t], SessionField))
             ELSE /\ last'.status = 401
                  /\ last'.error = "invalid_client"
                  /\ tokenStore' = tokenStore
       /\ MiddlewareStep => \A r \in MountedRequests, t \in IssuedTokens :
             (/\ t \in DOMAIN tokenStore
              /\ ~HasSession(t)
              /\ ~TokenExpired(tokenStore[t], now)
              /\ RouteOf(r.method, r.path) # "none"
              /\ Gate(r, "Bearer " \o t)) =>
                (last'.info.handler # "none" /\ last'.info.token = t)]_vars

\* The gate admitted a token that the client_credentials grant had stored.
C12_Witness ==
    /\ last.op = "mcp"
    /\ last.info.handler # "none"
    /\ last.info.token \in DOMAIN tokenStore
    /\ tokenStore[last.info.token].scope = CLIENT_CREDENTIALS_SCOPE
    /\ tokenStore[last.info.token].client_id \in DOMAIN clientStore

\* C13: a token request whose grant_type is neither authorization_code nor
\* client_credentials, or is missing, is answered 400 unsupported_grant_type
\* and leaves the token store and the client registry unchanged, whatever else
\* the body carries.
C13_UnsupportedGrant ==
    [][\A body \in TokenBodies :
          (body.grant_type \notin {"authorization_code", "client_credentials"}
             /\ Token(body)) =>
                /\ last'.status = 400
                /\ last'.error = "unsupported_grant_type"
                /\ tokenStore' = tokenStore
                /\ clientStore' = clientStore]_vars

\* A request with grant_type password that named a stored code was refused,
\* and the code is still in the store.
C13_Witness ==
    /\ last.op = "token"
    /\ last.error = "unsupported_grant_type"
    /\ last.info.grant_type = "password"
    /\ last.info.code \in AllCodes
    /\ AuthKey(last.info.code) \in DOMAIN tokenStore

\* The submitted URIs that are https, or http with host localhost.
HttpsOrLocalhost ==
    {RegisteredUri, LocalUri, "http://localhost/cb", "https://localhost/cb"}

\* C14: a registration with a redirect_uris list stores a client whose
\* redirect_uris are exactly the submitted entries that are https or http with
\* host localhost, in their order, when there is one; when there is none it is
\* answered 400 invalid_redirect_uri and the client registry is unchanged.
C14_RegisterFilters ==
    [][\A uris \in WideUriLists : Register(uris) =>
          LET kept == SelectSeq(uris, LAMBDA u : u \in HttpsOrLocalhost) IN
          IF kept # <<>>
          THEN /\ last'.status = 200
               /\ last'.info.client_id \notin DOMAIN clientStore
               /\ DOMAIN clientStore' = DOMAIN clientStore \cup {last'.info.client_id}
               /\ clientStore'[last'.info.client_id].redirect_uris = kept
               /\ last'.info.redirect_uris = kept
               /\ \A k \in DOMAIN clientStore : clientStore'[k] = clientStore[k]
          ELSE /\ last'.status = 400
               /\ last'.error = "invalid_redirect_uri"
               /\ clientStore' = clientStore]_vars

\* A client was stored with the two entries the filter kept of a longer list.
C14_Witness ==
    \E k \in DOMAIN clientStore : clientStore[k].redirect_uris = <<LocalUri, RegisteredUri>>

\* Every authorization code record names a registered client and one of its
\* registered redirect URIs, and has a non-empty challenge and method S256.
CodeRecordsBound(store, clients) ==
    \A c \in AllCodes : AuthKey(c) \in DOMAIN store =>
        LET rec == store[AuthKey(c)] IN
        /\ rec.client_id \in DOMAIN clients
        /\ \E i \in 1..Len(clients[rec.client_id].redirect_uris) :
              clients[rec.client_id].redirect_uris[i] = rec.redirect_uri
        /\ rec.code_challenge \notin {"", Undefined}
        /\ rec.code_challenge_method = "S256"

\* The query has all of client_id, redirect_uri and code_challenge, its method
\* is S256 or absent, its client is registered and its redirect_uri is one of
\* the client's.
WellFormedQuery(q) ==
    /\ q.client_id \notin {"", Undefined}
    /\ q.redirect_uri \notin {"", Undefined}
    /\ q.code_challenge \notin {"", Undefined}
    /\ q.code_challenge_method \in {Undefined, "S256"}
    /\ q.client_id \in DOMAIN clientStore
    /\ \E i \in 1..Len(clientStore[q.client_id].redirect_uris) :
          clientStore[q.client_id].redirect_uris[i] = q.redirect_uri

\* C15: after every step each authorization code record in the token store
\* has the client_id of a registered client, a redirect_uri that client
\* registered, a non-empty code_challenge and code_challenge_method S256; an
\* authorize request that fails one of these checks is answered 400 with
\* invalid_request, or invalid_client when only the client is unknown, and
\* mints no code; a request that passes them stores a code record.
C15_CodeRecordsBound ==
    [][/\ CodeRecordsBound(tokenStore', clientStore')
       /\ \A q \in WideQueries : AuthorizeBegin(q) =>
             IF WellFormedQuery(q)
             THEN /\ rand'.code = rand.code + 1
                  /\ DOMAIN tokenStore' = DOMAIN tokenStore \cup {AuthKey(CodeOf(rand'.code))}
                  /\ tokenStore'[AuthKey(CodeOf(rand'.code))].client_id = q.client_id
                  /\ tokenStore'[AuthKey(CodeOf(rand'.code))].redirect_uri = q.redirect_uri
             ELSE /\ last'.status = 400
                  /\ last'.error \in {"invalid_request", "invalid_client"}
                  /\ last'.error = "invalid_client" <=>
                        (/\ q.client_id \notin DOMAIN clientStore
                         /\ q.client_id \notin {"", Undefined}
                         /\ q.redirect_uri \notin {"", Undefined}
                         /\ q.code_challenge \notin {"", Undefined}
                         /\ q.code_challenge_method \in {Undefined, "S256"})
                  /\ tokenStore' = tokenStore
                  /\ rand' = rand]_vars

\* A request naming a redirect_uri its client had not registered was refused
\* while a code of that client was in the store.
C15_Witness ==
    /\ last.op = "authorize"
    /\ last.status = 400
    /\ last.description = "Invalid redirect_uri"
    /\ \E c \in AllCodes : AuthKey(c) \in DOMAIN tokenStore

\* C16: every redirect of a successful /oauth/callback goes to the
\* redirect_uri recorded with the authorization code, which is one of the
\* registered redirect URIs of the code's client, and carries that code and
\* state=authorized, whatever client_id, scope or redirect_uri the identity
\* provider's claims carry; and only such a step answers 302.
C16_CallbackRedirect ==
    [][/\ \A h \in Handlers, c \in WideClaims :
             (CallbackValidate(h, "valid", c) /\ last'.status = 302) =>
                LET rec == tokenStore[AuthKey(c.mcp_auth_code)] IN
                /\ last'.info.location = rec.redirect_uri
                /\ \E i \in 1..Len(clientStore[rec.client_id].redirect_uris) :
                      clientStore[rec.client_id].redirect_uris[i] = last'.info.location
                /\ last'.info.code = c.mcp_auth_code
                /\ last'.info.state = "authorized"
       /\ (last'.op = "callback" /\ last'.status = 302 /\ last' # last) =>
             \E h \in Handlers, c \in WideClaims :
                /\ CallbackValidate(h, "valid", c)
                /\ AuthKey(c.mcp_auth_code) \in DOMAIN tokenStore]_vars

\* The callback redirected to the client's second redirect URI although the
\* claims of the identity provider named another one.
C16_Witness ==
    /\ last.op = "callback"
    /\ last.status = 302
    /\ last.info.location = LocalUri
    /\ last.info.minted \in DOMAIN tokenStore
    /\ tokenStore[last.info.minted].descope_user.redirect_uri = OtherUri

\* The state tokens the start requests have stored so far.
IssuedStates == {StateOf(n) : n \in 1..rand.state}

\* C17: a social-login callback for a provider goes on to mint an access token
\* only if it carries a state that a start request for the same provider
\* stored and that is still in the store, and it deletes that state; a callback
\* with no state, an unknown or consumed state, or a state of another provider
\* mints no token.
C17_StateBindsProvider ==
    [][/\ \A p \in Providers, s \in CallbackStates :
             (SocialCallbackBegin(p, "idp_code", s) /\ inflight' # inflight) =>
                /\ s \in IssuedStates
                /\ StateKey(s) \in DOMAIN tokenStore
                /\ tokenStore[StateKey(s)].provider = p
                /\ StateKey(s) \notin DOMAIN tokenStore'
       /\ \A h \in Handlers :
             (SocialCallbackEnd(h, "ok") /\ last'.status = 200) =>
                h.state \in IssuedStates]_vars

\* C18: the refresh_token of a successful authorization_code grant cannot be
\* redeemed: no refresh token is ever a key of the token store, the gate
\* answers a request that presents one to a route with a handler with 401 and
\* does not call the handler, and a token request with grant_type
\* refresh_token is answered 400 unsupported_grant_type and stores nothing.
C18_RefreshNeverRedeemable ==
    [][/\ \A t \in AllRefreshTokens : t \notin DOMAIN tokenStore'
       /\ \A body \in RefreshBodies :
             (Token(body) /\ last'.status = 200
                /\ body.grant_type = "authorization_code") =>
                   /\ last'.info.refresh_token \in AllRefreshTokens
                   /\ last'.info.refresh_token \notin DOMAIN tokenStore'
       /\ MiddlewareStep => \A r \in MountedRequests, t \in AllRefreshTokens :
             (RouteOf(r.method, r.path) # "none" /\ Gate(r, "Bearer " \o t)) =>
                /\ last'.status = 401
                /\ last'.info.handler = "none"
       /\ \A body \in RefreshBodies :
             (body.grant_type = "refresh_token" /\ Token(body)) =>
                /\ last'.status = 400
                /\ last'.error = "unsupported_grant_type"
                /\ tokenStore' = tokenStore]_vars

\* The gate refused the refresh token that an authorization_code grant had
\* returned.
C18_Witness ==
    /\ last.op = "mcp"
    /\ last.status = 401
    /\ \E n \in 1..MaxTokens, g \in grants :
          /\ g.access_token = AccessTokenOf(n)
          /\ last.info.token = RefreshTokenOf(n)

\* The handlers of the variants that answer with tool output or with the MCP
\* initialize message.
ProtectedHandlers == {"initialize", "tools", "tools_call"}

\* C19: in the variants a protected MCP endpoint answers with tool output or
\* the initialize message only for a bearer token that someone issued (a
\* session of the identity provider, or one of the demo tokens the demo
\* server publishes); a request to a protected endpoint with any other
\* bearer token is answered 401.
C19_BearerValidated ==
    [][/\ (last'.op \in Variants /\ last' # last
            /\ last'.info.handler \in ProtectedHandlers)
            => last'.info.token \in SessionTokens \cup demoTokens
       /\ \A t \in VariantTokens \ (SessionTokens \cup demoTokens) :
             \/ VercelHandler([method |-> "GET", path |-> "/mcp"], "Bearer " \o t)
             \/ \E r \in DemoRequests :
                   /\ r.path \in {"/mcp/tools", "/mcp/tools/call"}
                   /\ DemoRequest(r, "Bearer " \o t, Undefined)
             \/ \E h \in Handlers, o \in {"throws", "invalid", "valid"} :
                   h.token = t /\ HonoMcpEnd(h, o)
             => last'.status = 401]_vars

\* The error_description texts that name no upstream error.
GenericDescriptions ==
    {"Failed to start OAuth flow with Descope",
     "Failed to process OAuth callback with Descope"}

\* C20: when a call to the identity provider fails (it rejects, or resolves
\* without ok, or without a usable answer), the handler answers 500 with
\* error server_error and one of the fixed generic descriptions, so no
\* message of the upstream error is in the body.
C20_UpstreamErrorsGeneric ==
    [][(\E h \in Handlers :
            \/ AuthorizeEnd(h, FALSE)
            \/ CallbackExchange(h, Undefined)
            \/ \E c \in CustomClaims : CallbackValidate(h, "throws", c)
            \/ \E o \in {"not_ok", "throws"} : SocialStartEnd(h, o)
            \/ \E o \in {"not_ok", "throws"} : SocialCallbackEnd(h, o))
        => /\ last'.status = 500
           /\ last'.error = "server_error"
           /\ last'.description \in GenericDescriptions]_vars

\* The calls a create_order request has made, in flight or answered.
OrderLogs ==
    {h.calls : h \in {x \in Handlers : x.pc \in {"order_check", "order_post"}}}
    \cup (IF last.op = "create_order" THEN {last.info.calls} ELSE {})

OrderItems(calls) ==
    IF last.op = "create_order" /\ last.info.calls = calls
    THEN {last.info.items}
    ELSE {h.items : h \in {x \in Handlers :
                x.pc \in {"order_check", "order_post"} /\ x.calls = calls}}

\* C21: create_order checks the line items in item order, one GET each and
\* none twice; it posts the order only when the GET of every item was
\* answered ok; a failed call is the last call of the request, and a failed
\* check is reported as 'Product <id> not found' for that item.
C21_OrderAfterChecks ==
    /\ \A calls \in OrderLogs : \A items \in OrderItems(calls) :
          /\ Len(calls) <= Len(items) + 1
          /\ \A k \in 1..Len(calls) :
                /\ k <= Len(items) =>
                      calls[k].method = "GET" /\ calls[k].target = items[k]
                /\ k = Len(items) + 1 => calls[k].method = "POST"
                /\ k < Len(calls) => calls[k].answer = "ok"
    /\ (last.op = "create_order" /\ last.info.calls[Len(last.info.calls)].method = "GET")
          => /\ last.status = 500
             /\ last.info.calls[Len(last.info.calls)].answer = "failed"
             /\ last.error = ToolError("create_order",
                    "Product " \o last.info.items[Len(last.info.calls)] \o " not found")

\* The check of the second of three items failed: the third was not checked
\* and no order was posted.
C21_Witness ==
    /\ last.op = "create_order"
    /\ Len(last.info.items) = 3
    /\ Len(last.info.calls) = 2
    /\ last.info.calls[1].answer = "ok"
    /\ last.info.calls[2].answer = "failed"
    /\ last.status = 500

\* C22: a stored client record is never changed or removed by any request,
\* so the registry only grows, and a registration that succeeds stores its
\* record under a client_id that was not a key before.
C22_ClientsImmutable ==
    [][/\ \A k \in DOMAIN clientStore :
             k \in DOMAIN clientStore' /\ clientStore'[k] = clientStore[k]
       /\ clientStore' # clientStore =>
             /\ last'.op = "register"
             /\ last'.status = 200
             /\ last'.info.client_id \notin DOMAIN clientStore
             /\ DOMAIN clientStore' = DOMAIN clientStore \cup {last'.info.client_id}]_vars

\* A second client was registered while the first one's record, with a token
\* issued to it, is still there.
C22_Witness ==
    /\ last.op = "register"
    /\ last.status = 200
    /\ last.info.client_id = ClientIdOf(2)
    /\ ClientIdOf(1) \in DOMAIN clientStore
    /\ \E t \in DOMAIN tokenStore : tokenStore[t].client_id = ClientIdOf(1)

\* C23: when the start-login call of the identity provider fails after
\* /oauth/authorize has validated the client and its redirect_uri, the
\* response is a redirect to that redirect_uri, the one stored with the code,
\* and not a JSON error body.
C23_AuthorizeFailureRedirects ==
    [][\A h \in Handlers :
          (AuthorizeEnd(h, FALSE) /\ AuthKey(h.authCode) \in DOMAIN tokenStore) =>
             /\ last'.status = 302
             /\ last'.info.location = tokenStore[AuthKey(h.authCode)].redirect_uri]_vars

\* C24: a run of the middleware that admits the request, at once or after
\* the session was found valid, leaves the token store and the client
\* registry as they were; a run of the middleware changes the token store
\* only by deleting the presented token, with 401, when the token has
\* expired or its session was found invalid, and never changes the registry.
C24_AdmitLeavesStores ==
    [][MiddlewareStep =>
        /\ \A r \in MountedRequests, a \in Headers :
              Gate(r, a) =>
                 /\ clientStore' = clientStore
                 /\ (last' # last /\ last'.status # 401) => tokenStore' = tokenStore
                 /\ inflight' # inflight => tokenStore' = tokenStore
                 /\ tokenStore' # tokenStore =>
                       /\ last'.status = 401
                       /\ last'.description = "Token has expired"
                       /\ TokenExpired(tokenStore[last'.info.token], now)
                       /\ tokenStore' = MapDelete(tokenStore, last'.info.token)
        /\ \A h \in Handlers, o \in {"throws", "invalid", "valid"} :
              GateValidate(h, o) =>
                 /\ clientStore' = clientStore
                 /\ last'.status # 401 => tokenStore' = tokenStore
                 /\ tokenStore' # tokenStore =>
                       /\ last'.status = 401
                       /\ last'.description = "Descope session validation failed"
                       /\ tokenStore' = MapDelete(tokenStore, h.token)]_vars

\* The gate admitted a request whose token has a record, which is still in
\* the store.
C24_Witness ==
    /\ last.op = "mcp"
    /\ last.status = 200
    /\ last.info.token \in DOMAIN tokenStore
    /\ last.info.handler = "tool"

\* C25: when the middleware has admitted a request that presented a token,
\* the token is an access token minted by the token endpoint or a callback;
\* the key of an authorization code or of an OAuth state is not admitted.
C25_OnlyAccessTokensAdmitted ==
    (last.op = "mcp" /\ last.info.handler # "none" /\ last.info.token # Undefined)
        => last.info.token \in IssuedTokens

AccessKeys(store) == DOMAIN store \cap AllAccessTokens

CodeKeys(store) == {AuthKey(c) : c \in AllCodes} \cap DOMAIN store

\* C26: whichever of the callback and the token endpoint reads a code first
\* mints its token and deletes the code in the same step, so a step adds at
\* most one access-token record, only while deleting the code it read, a
\* deleted code never comes back, and the access-token records and the codes
\* still stored are together never more than the codes issued.
C26_OneTokenPerCode ==
    [][/\ Cardinality(AccessKeys(tokenStore') \ AccessKeys(tokenStore)) <= 1
       /\ \A t \in AccessKeys(tokenStore') \ AccessKeys(tokenStore) :
             \E c \in AllCodes :
                /\ AuthKey(c) \in DOMAIN tokenStore
                /\ AuthKey(c) \notin DOMAIN tokenStore'
                /\ last'.status \in {200, 302}
                /\ last'.info.code = c
       /\ \A c \in AllCodes :
             (AuthKey(c) \in DOMAIN tokenStore' /\ AuthKey(c) \notin DOMAIN tokenStore)
                => c = CodeOf(rand.code + 1)
       /\ Cardinality(AccessKeys(tokenStore')) + Cardinality(CodeKeys(tokenStore'))
             <= rand'.code]_vars

\* The callback minted the token of the code; a token request naming the
\* code, received before the callback ended, was then refused, and the store
\* holds the callback's token only.
C26_Witness ==
    /\ last.op = "token"
    /\ last.status = 400
    /\ last.error = "invalid_grant"
    /\ last.info.code \in AllCodes
    /\ Cardinality(AccessKeys(tokenStore)) = 1
    /\ \A t \in AccessKeys(tokenStore) : ~Falsy(Field(tokenStore[t], "descope_token"))

RECURSIVE ScopeNames(_)
\* The scope names of a space-separated scope string.
ScopeNames(scope) ==
    LET i == IndexOfAny(scope, {" "}, 1) IN
    IF scope = "" THEN {}
    ELSE IF i = 0 THEN {scope}
    ELSE ({SubSeq(scope, 1, i - 1)} \ {""}) \cup ScopeNames(SubSeq(scope, i + 1, Len(scope)))

\* C27: the scope stored with an access token of the authorization_code
\* grant, and returned in the response, names only scopes that are in the
\* registered scope of the client the code was issued to.
C27_ScopeWithinRegistered ==
    [][\A body \in TwoClientBodies :
          (Token(body) /\ body.grant_type = "authorization_code"
              /\ last'.status = 200) =>
             LET record == tokenStore'[last'.info.access_token] IN
             /\ last'.info.scope = record.scope
             /\ ScopeNames(record.scope)
                   \subseteq ScopeNames(clientStore[record.client_id].scope)]_vars

\* C28: an /oauth/authorize request that is answered with an error, 400 from
\* its checks or 500 when the start-login call of the identity provider has
\* failed, leaves the token store as it was before the request: after the
\* 500 the authorization code the request minted is not in the store.
C28_AuthorizeErrorLeavesStore ==
    [][/\ \A q \in WideQueries :
             (AuthorizeBegin(q) /\ last' # last /\ last'.status = 400)
                => tokenStore' = tokenStore
       /\ \A h \in Handlers :
             AuthorizeEnd(h, FALSE) =>
                /\ last'.status = 500
                /\ AuthKey(h.authCode) \notin DOMAIN tokenStore']_vars

\* C29: an authorization_code token request is granted only when its
\* client_id is the client_id stored with the code; a request that names
\* another client's code is refused even with the right code_verifier.
C29_CodeBoundToClient ==
    [][\A body \in TwoClientBodies :
          (Token(body) /\ body.grant_type = "authorization_code"
              /\ AuthKey(body.code) \in DOMAIN tokenStore
              /\ tokenStore[AuthKey(body.code)].client_id # body.client_id)
            => /\ last'.status # 200
               /\ tokenStore' = tokenStore]_vars

\* C30: a provider callback that presents a stored state whose expires_at,
\* ten minutes after its creation, is earlier than the current time is
\* answered 400 invalid_state, does not go on to the code exchange and so
\* mints no token.
C30_StaleStateRejected ==
    [][\A p \in Providers, s \in AllStates :
          (/\ SocialCallbackBegin(p, "idp_code", s)
           /\ StateKey(s) \in DOMAIN tokenStore
           /\ tokenStore[StateKey(s)].expires_at < now)
            => /\ inflight' = inflight
               /\ last'.status = 400
               /\ last'.error = "invalid_state"]_vars
====
